---- MODULE Spec2Model ----
(***************************************************************************)
(* A model of the mrkl Merkle tree library: the tree data model            *)
(* (src/src/tree/mod.rs), the sequential builder (src/src/tree/builder.rs),*)
(* the fork-join builders for complete and full trees                      *)
(* (src/src/tree/parallel.rs) and for balanced trees (src/src/parallel.rs),*)
(* with the hasher of the test suite (src/src/tree/testmocks.rs) and the   *)
(* leaf data extractor of the documentation examples (the first byte of    *)
(* the input).                                                             *)
(***************************************************************************)
EXTENDS Integers, Sequences, FiniteSets, TLC

\* ------------------------------------------------------------- bounds ----
MaxLen == 8        \* longest input sequence handed to a build
MaxChunk == 2      \* longest input value, in bytes
UsizeBits == 8     \* width of usize in the model

\* ---------------------------------------------------- program constants --
TagLeaf == 62      \* b'>'
TagHash == 35      \* b'#'
TagOpen == 40      \* b'('
TagClose == 41     \* b')'

\* b"The quick brown fox jumps over the lazy dog"
TEST_DATA ==
    << 84, 104, 101, 32, 113, 117, 105, 99, 107, 32, 98, 114, 111, 119, 110,
       32, 102, 111, 120, 32, 106, 117, 109, 112, 115, 32, 111, 118, 101, 114,
       32, 116, 104, 101, 32, 108, 97, 122, 121, 32, 100, 111, 103 >>

UsizeMax == 2^UsizeBits - 1

Min(a, b) == IF a < b THEN a ELSE b

\* slice::chunks(size): consecutive slices of size bytes, the last one shorter
\* when the length is not a multiple of size.
chunks(data, size) ==
    [k \in 1 .. (Len(data) + size - 1) \div size |->
        SubSeq(data, (k - 1) * size + 1, Min(k * size, Len(data)))]

\* The input sequences a caller may hand to a build: the chunks of a prefix
\* of the test data, as in TEST_DATA.chunks(n) of the test suite.
Inputs ==
    { it \in { chunks(SubSeq(TEST_DATA, 1, Min(dlen, Len(TEST_DATA))), size) :
                 dlen \in 0 .. MaxLen * MaxChunk, size \in 1 .. MaxChunk } :
        Len(it) <= MaxLen }

\* --------------------------------------------------------- data model ----
LeafNode(hash, data) == [kind |-> "Leaf", hash |-> hash, data |-> data]

HashNode(hash, children) == [kind |-> "Hash", hash |-> hash, children |-> children]

MerkleTree(root) == [root |-> root]

\* BuildResult<H, T> = Result<MerkleTree<H, T>, EmptyTree>; a panic unwinds
\* and returns nothing.
Ok(tree) == [tag |-> "Ok", tree |-> tree]
EmptyTree == [tag |-> "EmptyTree"]
Panicked == [tag |-> "Panic"]
NoResult == [tag |-> "None"]

\* ------------------------------------------------------------- hasher ----
\* MockHasher::hash_input: input.as_ref().to_vec()
hash_input(input) == [i \in 1 .. Len(input) |-> input[i]]

\* The children hash of MockHasher: '>' and the hash of a leaf child, "#(",
\* the hash and ")" of a hash-node child, concatenated in child order.
RECURSIVE hash_children(_)
hash_children(children) ==
    IF children = <<>> THEN <<>>
    ELSE LET node == Head(children)
             dump == IF node.kind = "Leaf"
                     THEN <<TagLeaf>> \o node.hash
                     ELSE <<TagHash, TagOpen>> \o node.hash \o <<TagClose>>
         IN  dump \o hash_children(Tail(children))

\* leaf::extract_with(|s: &[u8]| { s[0] })
extract_data(input) == input[1]

\* ------------------------------------------------- sequential builder ----
\* make_leaf with the hash taken of the extracted leaf data.
make_leaf_hashes_data(input) ==
    MerkleTree(LeafNode(hash_input(<<extract_data(input)>>), extract_data(input)))

\* Builder::make_leaf
make_leaf(input) ==
    MerkleTree(LeafNode(hash_input(input), extract_data(input)))

\* make_tree_unchecked with the hash taken of the first child only.
make_tree_unchecked_stale(children) ==
    MerkleTree(HashNode(hash_children(SubSeq(children, 1, 1)), children))

\* Builder::make_tree_unchecked
make_tree_unchecked(children) ==
    MerkleTree(HashNode(hash_children(children), children))

\* make_tree without the test for no children.
make_tree_no_check(children) == Ok(make_tree_unchecked(children))

\* Builder::make_tree
make_tree(children) ==
    IF children = <<>> THEN EmptyTree ELSE Ok(make_tree_unchecked(children))

\* join with right before left.
join_swapped(left, right) == make_tree_unchecked(<<right.root, left.root>>)

\* join that takes over the children of the two roots instead of the roots.
join_flattened(left, right) ==
    make_tree_unchecked(
        (IF left.root.kind = "Hash" THEN left.root.children ELSE <<left.root>>)
        \o (IF right.root.kind = "Hash" THEN right.root.children ELSE <<right.root>>))

\* Builder::join
join(left, right) == make_tree_unchecked(<<left.root, right.root>>)

\* chain_lone_child that hands the child back instead of wrapping it.
chain_lone_child_elided(child) == child

\* chain_lone_child that gives the chain node the hash of its child.
chain_lone_child_reusing_hash(child) ==
    MerkleTree(HashNode(child.root.hash, <<child.root>>))

\* Builder::chain_lone_child
chain_lone_child(child) == make_tree_unchecked(<<child.root>>)

\* The roots collected last tree first.
Roots_reversed(trees) == [i \in 1 .. Len(trees) |-> trees[Len(trees) + 1 - i].root]

\* iter.map(|tree| tree.root).collect()
Roots(trees) == [i \in 1 .. Len(trees) |-> trees[i].root]

\* collect_children_from that hands a lone tree back as it is.
collect_children_from_collapsing(trees) ==
    IF Len(trees) = 1 THEN Ok(trees[1]) ELSE make_tree(Roots(trees))

\* collect_children_from without the check for an empty collection.
collect_children_from_unchecked(trees) == Ok(make_tree_unchecked(Roots(trees)))

\* Builder::collect_children_from
collect_children_from(trees) == make_tree(Roots(trees))

\* usize::checked_next_power_of_two: the least power of two >= n, or None
\* (modelled as 0) when it does not fit in usize.
RECURSIVE NextPow2From(_, _)
NextPow2From(p, n) ==
    IF p >= n THEN p
    ELSE IF 2 * p > UsizeMax THEN 0
    ELSE NextPow2From(2 * p, n)

\* The least power of two strictly above n.
checked_next_power_of_two_strict(n) == NextPow2From(1, n + 1)

\* The least power of two >= n.
checked_next_power_of_two(n) == NextPow2From(1, n)

\* usize::next_power_of_two: as the checked form where the result fits.
next_power_of_two(n) == checked_next_power_of_two(n)

\* An ExactSizeIterator: the items it will yield and the length it reports.
Iter(items) == [items |-> items, len |-> Len(items)]

\* Builder::extract_complete_tree.  Returns the tree and the iterator as the
\* call leaves it, or a panic.
RECURSIVE extract_complete_tree(_, _, _)
extract_complete_tree(iter, len, perfect_len) ==
    LET left_len == perfect_len \div 2 IN
    IF len <= left_len THEN
        LET left == extract_complete_tree(iter, len, left_len) IN
        IF left.panic THEN left
        ELSE [panic |-> FALSE, tree |-> chain_lone_child(left.tree),
              iter |-> left.iter]
    ELSE IF len = 1 THEN
        IF iter = <<>> THEN [panic |-> TRUE]
        ELSE [panic |-> FALSE, tree |-> make_leaf(Head(iter)), iter |-> Tail(iter)]
    ELSE
        LET left == extract_complete_tree(iter, left_len, left_len) IN
        IF left.panic THEN left
        ELSE LET right_len == len - left_len
                 right == extract_complete_tree(left.iter, right_len, left_len)
             IN  IF right.panic THEN right
                 ELSE [panic |-> FALSE, tree |-> join(left.tree, right.tree),
                       iter |-> right.iter]

\* Builder::complete_tree_from
complete_tree_from(iterable) ==
    LET len == iterable.len IN
    IF len = 0 THEN EmptyTree
    ELSE LET perfect_len == checked_next_power_of_two(len) IN
         IF perfect_len = 0 THEN Panicked
         ELSE LET res == extract_complete_tree(iterable.items, len, perfect_len) IN
              IF res.panic THEN Panicked
              ELSE IF res.iter # <<>> THEN Panicked
              ELSE Ok(res.tree)

\* --------------------------------------------- incremental builder ----
\* tree::Builder::push_leaf / push_tree / complete, as called by the balanced
\* builder: the list of pending nodes and its finalisation.
push_leaf(nodes, input) ==
    Append(nodes, LeafNode(hash_input(input), extract_data(input)))

push_tree(nodes, tree) == Append(nodes, tree.root)

complete(nodes) ==
    IF nodes = <<>> THEN EmptyTree
    ELSE IF Len(nodes) = 1 THEN Ok(MerkleTree(nodes[1]))
    ELSE Ok(make_tree_unchecked(nodes))

\* ---------------------------------------------------- parallel builders --
\* usize::saturating_add
saturating_add(a, b) == IF a + b > UsizeMax THEN UsizeMax ELSE a + b

\* Vec::split_off(at): the vector keeps [0, at), the result is [at, len).
\* The part kept.
split_off_keep(v, at) == SubSeq(v, 1, at)

\* The part split off.
split_off(v, at) == SubSeq(v, at + 1, Len(v))

\* The branches with the len == 1 test first.
reduce_complete_case_leaf_first(len, perfect_len) ==
    IF len = 1 THEN "leaf"
    ELSE IF len <= perfect_len \div 2 THEN "chain"
    ELSE "fork"

\* The three branches of tree::parallel::Builder::reduce_complete.
reduce_complete_case(len, perfect_len) ==
    LET left_len == perfect_len \div 2 IN
    IF len <= left_len THEN "chain"
    ELSE IF len = 1 THEN "leaf"
    ELSE "fork"

\* The left length without the rounding to a power of two.
full_left_len_half(len) == saturating_add(len, 1) \div 2

\* The left length as the power of two that holds all of len.
full_left_len_whole(len) == next_power_of_two(len)

\* reduce_full: (len.saturating_add(1) / 2).next_power_of_two()
full_left_len(len) == next_power_of_two(saturating_add(len, 1) \div 2)

\* The left length rounded down.
balanced_left_len_floor(len) == len \div 2

\* parallel::Builder::reduce (balanced): len.saturating_add(1) / 2
balanced_left_len(len) == saturating_add(len, 1) \div 2

\* partition_map with Either::Left and Either::Right exchanged.
partition_map_flipped(nodes, left_len) ==
    << [i \in 1 .. Len(nodes) - left_len |-> nodes[left_len + i]],
       [i \in 1 .. left_len |-> nodes[i]] >>

\* partition_map in reduce: the items at index < left_len go left, the others
\* right, each side in index order.
partition_map(nodes, left_len) ==
    << [i \in 1 .. left_len |-> nodes[i]],
       [i \in 1 .. Len(nodes) - left_len |-> nodes[left_len + i]] >>

\* join with the results of the two closures exchanged.
par_join_swapped(left_tree, right_tree) == join(right_tree, left_tree)

\* tree::parallel::Builder::join, once both closures have returned.
par_join(left_tree, right_tree) == join(left_tree, right_tree)

\* parallel::Builder::join (balanced), once both closures have returned:
\* push_tree(left_tree); push_tree(right_tree); complete().unwrap()
balanced_join(left_tree, right_tree) ==
    complete(push_tree(push_tree(<<>>, left_tree), right_tree))

\* The leaf of the balanced build wrapped in a hash node.
balanced_leaf_wrapped(input) == Ok(chain_lone_child(make_leaf(input)))

\* The closure of map_with in build_balanced_from_iter.
balanced_leaf(input) == complete(push_leaf(<<>>, input))

\* ------------------------------------------------------------- state -----
VARIABLES
    op,                  \* the entry point the caller has called
    pc,                  \* "idle", "map", "reduce", "done"
    input,               \* the input sequence of the call
    leaves,              \* the collection the leaf-mapping tasks fill
    frames,              \* the calls of the reduction in progress, by path
    result,              \* what the call returned
    hash_input_calls,    \* number of hash_input calls made so far
    hash_children_calls, \* number of children hashes computed so far
    held,                \* the trees the caller holds, oldest first
    call,                \* the last call the caller made on its trees
    iters                \* the Children iterators the caller holds

\* The state of a bulk build.
build == <<op, pc, input, leaves, frames, result,
           hash_input_calls, hash_children_calls>>

\* The state of a caller working on trees it holds.
caller == <<held, call, iters>>

vars == <<op, pc, input, leaves, frames, result,
          hash_input_calls, hash_children_calls, held, call, iters>>

\* No call made yet.
NoCall == [name |-> "none"]

NoTree == MerkleTree([kind |-> "None"])

NoFrames == <<>>

Frame(st, nodes, perfect_len, tree) ==
    [st |-> st, nodes |-> nodes, perfect_len |-> perfect_len, tree |-> tree]

RECURSIVE CountKind(_, _)
CountKind(node, kind) ==
    (IF node.kind = kind THEN 1 ELSE 0)
    + (IF node.kind = "Hash"
       THEN LET RECURSIVE Sum(_)
                Sum(i) == IF i = 0 THEN 0
                          ELSE CountKind(node.children[i], kind) + Sum(i - 1)
            IN  Sum(Len(node.children))
       ELSE 0)

CountIn(res, kind) == IF res.tag = "Ok" THEN CountKind(res.tree.root, kind) ELSE 0

\* node and every node below it.
RECURSIVE NodesOf(_)
NodesOf(node) ==
    IF node.kind = "Leaf" THEN {node}
    ELSE {node} \cup UNION { NodesOf(node.children[i]) : i \in DOMAIN node.children }

\* The hash nodes among them.
InternalNodesOf(node) == { nd \in NodesOf(node) : nd.kind = "Hash" }

Init ==
    /\ op = "none"
    /\ pc = "idle"
    /\ input = <<>>
    /\ leaves = <<>>
    /\ frames = NoFrames
    /\ result = NoResult
    /\ hash_input_calls = 0
    /\ hash_children_calls = 0
    /\ held = <<>>
    /\ call = NoCall
    /\ iters = <<>>

\* A call that runs on the caller's thread from start to end.
Returns(name, it, res) ==
    /\ op' = name
    /\ pc' = "done"
    /\ input' = it
    /\ result' = res
    /\ hash_input_calls' = CountIn(res, "Leaf")
    /\ hash_children_calls' = CountIn(res, "Hash")
    /\ UNCHANGED <<leaves, frames>>
    /\ UNCHANGED caller

\* tree::Builder::complete_tree_from
SeqCompleteTreeFrom ==
    pc = "idle" /\ \E it \in Inputs : Returns("seq_complete", it, complete_tree_from(Iter(it)))

\* The leaf trees of the iterator handed to collect_children_from: the caller
\* maps make_leaf over the input.
LeafTrees(it) == [i \in 1 .. Len(it) |-> make_leaf(it[i])]

\* tree::Builder::collect_children_from
SeqCollectChildrenFrom ==
    pc = "idle" /\ \E it \in Inputs :
        Returns("seq_collect", it, collect_children_from(LeafTrees(it)))

\* FromNodes::tree_from_nodes for tree::Builder
tree_from_nodes(nodes) == make_tree(nodes)

\* tree::parallel::Builder::collect_children_from
par_collect_children_from(trees) == tree_from_nodes(Roots(trees))

ParCollectChildrenFrom ==
    pc = "idle" /\ \E it \in Inputs :
        Returns("par_collect", it, par_collect_children_from(LeafTrees(it)))

\* The entry of complete_tree_from_iter, full_tree_from_iter and
\* build_balanced_from_iter: an empty iterator is refused before any mapping.
ParEnter(name, it) ==
    /\ op' = name
    /\ input' = it
    /\ IF Iter(it).len = 0
       THEN /\ pc' = "done"
            /\ result' = EmptyTree
            /\ leaves' = leaves
       ELSE /\ pc' = "map"
            /\ result' = result
            /\ leaves' = [i \in 1 .. Len(it) |-> NoTree]
    /\ UNCHANGED <<frames, hash_input_calls, hash_children_calls>>
    /\ UNCHANGED caller

ParCompleteTreeFrom == pc = "idle" /\ \E it \in Inputs : ParEnter("par_complete", it)

ParFullTreeFrom == pc = "idle" /\ \E it \in Inputs : ParEnter("par_full", it)

BuildBalancedFrom == pc = "idle" /\ \E it \in Inputs : ParEnter("par_balanced", it)

\* One task of map_with: the leaf of input i, stored at index i.
MapWith(i) ==
    /\ pc = "map"
    /\ i \in 1 .. Len(leaves)
    /\ leaves[i] = NoTree
    /\ LET leaf == IF op = "par_balanced" THEN balanced_leaf(input[i]).tree
                   ELSE make_leaf(input[i])
       IN  leaves' = [leaves EXCEPT ![i] = leaf]
    /\ hash_input_calls' = hash_input_calls + 1
    /\ UNCHANGED <<op, pc, input, frames, result, hash_children_calls>>
    /\ UNCHANGED caller

\* All leaves are collected: the top-level call of the reduction.
BeginReduce ==
    /\ pc = "map"
    /\ \A i \in 1 .. Len(leaves) : leaves[i] # NoTree
    /\ IF Len(leaves) = 0
          \/ (op = "par_complete" /\ checked_next_power_of_two(Len(leaves)) = 0)
       THEN /\ pc' = "done"
            /\ result' = Panicked
            /\ frames' = frames
       ELSE /\ pc' = "reduce"
            /\ result' = result
            /\ frames' = (<<>> :> Frame("ready", leaves,
                             IF op = "par_complete"
                             THEN checked_next_power_of_two(Len(leaves)) ELSE 0,
                             NoTree))
    /\ leaves' = <<>>
    /\ UNCHANGED <<op, input, hash_input_calls, hash_children_calls>>
    /\ UNCHANGED caller

Ready(p) == pc = "reduce" /\ p \in DOMAIN frames /\ frames[p].st = "ready"

\* A sub-reduction started second is never seen to have returned.
Done_left_only(p) ==
    /\ p \in DOMAIN frames
    /\ frames[p].st = "done"
    /\ (IF Len(p) = 0 THEN TRUE ELSE p[Len(p)] = 0)

\* The reduction at p has returned its tree.
Done(p) == p \in DOMAIN frames /\ frames[p].st = "done"

\* The frame at p returns tree.
Return(p, tree) ==
    frames' = [q \in DOMAIN frames \ {p \o <<0>>, p \o <<1>>} |->
                 IF q = p THEN Frame("done", <<>>, 0, tree) ELSE frames[q]]

\* A fork whose two sub-reductions get each other's place.
Call_swapped(p, st, subs) ==
    frames' = [q \in DOMAIN frames \cup { p \o <<k - 1>> : k \in 1 .. Len(subs) } |->
                 IF q = p THEN Frame(st, <<>>, frames[p].perfect_len, NoTree)
                 ELSE IF q \in DOMAIN frames THEN frames[q]
                 ELSE subs[Len(subs) - q[Len(q)]]]

\* A call that always starts two sub-reductions, the last one twice if need be.
Call_forking_twice(p, st, subs) ==
    frames' = [q \in DOMAIN frames \cup {p \o <<0>>, p \o <<1>>} |->
                 IF q = p THEN Frame(st, <<>>, frames[p].perfect_len, NoTree)
                 ELSE IF q \in DOMAIN frames THEN frames[q]
                 ELSE subs[Min(q[Len(q)] + 1, Len(subs))]]

\* The frame at p calls (chain) or forks (join) its sub-reductions.
Call(p, st, subs) ==
    frames' = [q \in DOMAIN frames \cup { p \o <<k - 1>> : k \in 1 .. Len(subs) } |->
                 IF q = p THEN Frame(st, <<>>, frames[p].perfect_len, NoTree)
                 ELSE IF q \in DOMAIN frames THEN frames[q]
                 ELSE subs[q[Len(q)] + 1]]

\* tree::parallel::Builder::reduce_complete, up to its recursive call, its
\* leaf or its fork.
ReduceComplete(p) ==
    /\ Ready(p)
    /\ op = "par_complete"
    /\ LET level_nodes == frames[p].nodes
           len == Len(level_nodes)
           left_len == frames[p].perfect_len \div 2
           case == reduce_complete_case(len, frames[p].perfect_len)
       IN  IF case = "chain"
           THEN Call(p, "chain", << Frame("ready", level_nodes, left_len, NoTree) >>)
           ELSE IF case = "leaf"
           THEN Return(p, level_nodes[Len(level_nodes)])
           ELSE Call(p, "join",
                     << Frame("ready", split_off_keep(level_nodes, left_len),
                              left_len, NoTree),
                        Frame("ready", split_off(level_nodes, left_len),
                              left_len, NoTree) >>)
    /\ UNCHANGED <<op, pc, input, leaves, result,
                   hash_input_calls, hash_children_calls>>
    /\ UNCHANGED caller

\* reduce_complete after its recursive call returned: chain_lone_child(subtree)
ChainLoneChild(p) ==
    /\ pc = "reduce"
    /\ p \in DOMAIN frames
    /\ frames[p].st = "chain"
    /\ Done(p \o <<0>>)
    /\ Return(p, chain_lone_child(frames[p \o <<0>>].tree))
    /\ hash_children_calls' = hash_children_calls + 1
    /\ UNCHANGED <<op, pc, input, leaves, result, hash_input_calls>>
    /\ UNCHANGED caller

\* tree::parallel::Builder::reduce_full, up to its leaf or its fork.
ReduceFull(p) ==
    /\ Ready(p)
    /\ op = "par_full"
    /\ LET level_nodes == frames[p].nodes
           len == Len(level_nodes)
           left_len == full_left_len(len)
       IN  IF len = 1
           THEN Return(p, level_nodes[Len(level_nodes)])
           ELSE Call(p, "join",
                     << Frame("ready", split_off_keep(level_nodes, left_len), 0, NoTree),
                        Frame("ready", split_off(level_nodes, left_len), 0, NoTree) >>)
    /\ UNCHANGED <<op, pc, input, leaves, result,
                   hash_input_calls, hash_children_calls>>
    /\ UNCHANGED caller

\* tree::parallel::Builder::join: rayon::join has returned both trees.
ParJoin(p) ==
    /\ pc = "reduce"
    /\ op \in {"par_complete", "par_full"}
    /\ p \in DOMAIN frames
    /\ frames[p].st = "join"
    /\ Done(p \o <<0>>)
    /\ Done(p \o <<1>>)
    /\ Return(p, par_join(frames[p \o <<0>>].tree, frames[p \o <<1>>].tree))
    /\ hash_children_calls' = hash_children_calls + 1
    /\ UNCHANGED <<op, pc, input, leaves, result, hash_input_calls>>
    /\ UNCHANGED caller

\* parallel::Builder::reduce (balanced), up to its single item or the fork
\* made by its call of join.
Reduce(p) ==
    /\ Ready(p)
    /\ op = "par_balanced"
    /\ LET nodes == frames[p].nodes
           len == Len(nodes)
           left_len == balanced_left_len(len)
       IN  IF len = 1
           THEN Return(p, nodes[1])
           ELSE LET parts == partition_map(nodes, left_len)
                IN  Call(p, "join", << Frame("ready", parts[1], 0, NoTree),
                                       Frame("ready", parts[2], 0, NoTree) >>)
    /\ UNCHANGED <<op, pc, input, leaves, result,
                   hash_input_calls, hash_children_calls>>
    /\ UNCHANGED caller

\* parallel::Builder::join (balanced): rayon::join has returned both trees.
BalancedJoin(p) ==
    /\ pc = "reduce"
    /\ op = "par_balanced"
    /\ p \in DOMAIN frames
    /\ frames[p].st = "join"
    /\ Done(p \o <<0>>)
    /\ Done(p \o <<1>>)
    /\ Return(p, balanced_join(frames[p \o <<0>>].tree, frames[p \o <<1>>].tree).tree)
    /\ hash_children_calls' = hash_children_calls + 1
    /\ UNCHANGED <<op, pc, input, leaves, result, hash_input_calls>>
    /\ UNCHANGED caller

\* The top-level reduction has returned: the build returns Ok(tree).
Finish ==
    /\ pc = "reduce"
    /\ Done(<<>>)
    /\ pc' = "done"
    /\ result' = Ok(frames[<<>>].tree)
    /\ frames' = NoFrames
    /\ UNCHANGED <<op, input, leaves, hash_input_calls, hash_children_calls>>
    /\ UNCHANGED caller

\* child_at that wraps an index past the end around.
child_at_wrapping(node, index) ==
    [tag |-> "Node", node |-> node.children[(index % Len(node.children)) + 1]]

\* HashNode::child_at: &self.children[index], which panics out of range.
child_at(node, index) ==
    IF index < Len(node.children)
    THEN [tag |-> "Node", node |-> node.children[index + 1]]
    ELSE Panicked

\* HashNode::child_at on a hash node of the tree the build returned.
ChildAt ==
    /\ pc = "done"
    /\ result.tag = "Ok"
    /\ \E node \in InternalNodesOf(result.tree.root) :
          \E index \in 0 .. Len(node.children) + 1 \cup {UsizeMax} :
             call' = [name |-> "child_at", args |-> <<node, index>>,
                      result |-> child_at(node, index)]
    /\ UNCHANGED <<held, iters>>
    /\ UNCHANGED build

Next ==
    \/ SeqCompleteTreeFrom
    \/ SeqCollectChildrenFrom
    \/ ParCollectChildrenFrom
    \/ ParCompleteTreeFrom
    \/ ParFullTreeFrom
    \/ BuildBalancedFrom
    \/ \E i \in DOMAIN leaves : MapWith(i)
    \/ BeginReduce
    \/ \E p \in DOMAIN frames : ReduceComplete(p)
    \/ \E p \in DOMAIN frames : ChainLoneChild(p)
    \/ \E p \in DOMAIN frames : ReduceFull(p)
    \/ \E p \in DOMAIN frames : ParJoin(p)
    \/ \E p \in DOMAIN frames : Reduce(p)
    \/ \E p \in DOMAIN frames : BalancedJoin(p)
    \/ Finish
    \/ ChildAt

Spec == Init /\ [][Next]_vars

\* The parallel bulk builds.
ParOps == {"par_complete", "par_full", "par_balanced"}

\* A step of a build under way: a task of map_with, the collection of the
\* leaves, a step of a reduction or a join, the return of the build.
BuildStep ==
    \/ \E i \in DOMAIN leaves : MapWith(i)
    \/ BeginReduce
    \/ \E p \in DOMAIN frames : ReduceComplete(p)
    \/ \E p \in DOMAIN frames : ChainLoneChild(p)
    \/ \E p \in DOMAIN frames : ReduceFull(p)
    \/ \E p \in DOMAIN frames : ParJoin(p)
    \/ \E p \in DOMAIN frames : Reduce(p)
    \/ \E p \in DOMAIN frames : BalancedJoin(p)
    \/ Finish

\* The builds with rayon's thread pool running a task whenever there is one
\* that can run.
\* The inputs of one byte each: how long a build runs depends on how many
\* inputs there are, not on what is in them.
ByteInputs == { it \in Inputs : \A i \in DOMAIN it : Len(it[i]) = 1 }

\* A caller starts a bulk build: the sequential one returns in the same step,
\* a parallel one starts its map_with tasks.
BuildFrom ==
    /\ pc = "idle"
    /\ \E it \in ByteInputs :
          \/ Returns("seq_complete", it, complete_tree_from(Iter(it)))
          \/ \E name \in ParOps : ParEnter(name, it)

\* The bulk builds from their call to their return.
BuildNext ==
    \/ BuildFrom
    \/ BuildStep

FairSpec == Init /\ [][BuildNext]_vars /\ WF_vars(BuildStep)

\* --------------------------------------------- a caller holding trees ----
\* How many trees the caller holds at once, and how many nodes they have in
\* all.
MaxHeld == 3
MaxNodes == 4

\* The offset captured by the closure of builder_leaf_extract_with_closure.
Off == 42

Offs == {0, Off}

\* The inputs of the caller's leaves: "T" and ">T".
LeafInputs == { <<TEST_DATA[1]>>, <<TagLeaf, TEST_DATA[1]>> }

\* ExtractFn::extract_data for the extractor |s| s.len() + off
extract_len_off(off, s) == Len(s) + off

\* Builder::make_leaf of a builder made with ExtractFn::with(|s| s.len() + off)
make_leaf_with(off, s) ==
    MerkleTree(LeafNode(hash_input(s), extract_len_off(off, s)))

NodeCount(node) == CountKind(node, "Leaf") + CountKind(node, "Hash")

RECURSIVE NodesIn(_)
NodesIn(trees) ==
    IF trees = <<>> THEN 0
    ELSE NodeCount(trees[1].root) + NodesIn(Tail(trees))

RECURSIVE HashNodesIn(_)
HashNodesIn(trees) ==
    IF trees = <<>> THEN 0
    ELSE CountKind(trees[1].root, "Hash") + HashNodesIn(Tail(trees))

\* The first n held trees, and the trees after them.
Kept(n) == SubSeq(held, 1, n)
Moved(n) == SubSeq(held, n + 1, Len(held))

\* A call that takes the held trees after the first n by value and returns
\* res; the caller holds the returned tree in their place.
CallsWith(name, n, args, res) ==
    /\ call' = [name |-> name, args |-> args, result |-> res,
                hash_children_calls |->
                    IF res.tag = "Ok"
                    THEN CountKind(res.tree.root, "Hash") - HashNodesIn(Moved(n))
                    ELSE 0]
    /\ held' = IF res.tag = "Ok" THEN Append(Kept(n), res.tree) ELSE Kept(n)
    /\ UNCHANGED iters
    /\ UNCHANGED build

\* The same, for a call whose arguments are the trees it takes.
Calls(name, n, res) == CallsWith(name, n, Moved(n), res)

TreeInit ==
    /\ op = "none"
    /\ pc = "idle"
    /\ input = <<>>
    /\ leaves = <<>>
    /\ frames = NoFrames
    /\ result = NoResult
    /\ hash_input_calls = 0
    /\ hash_children_calls = 0
    /\ held = <<>>
    /\ call = NoCall
    /\ iters = <<>>

\* tree::Builder::make_leaf
MakeLeaf ==
    /\ Len(held) < MaxHeld
    /\ NodesIn(held) < MaxNodes
    /\ \E off \in Offs, it \in LeafInputs :
          CallsWith("make_leaf", Len(held), <<off, it>>, Ok(make_leaf_with(off, it)))

\* tree::Builder::join
Join ==
    /\ Len(held) >= 2
    /\ NodesIn(held) < MaxNodes
    /\ Calls("join", Len(held) - 2, Ok(join(held[Len(held) - 1], held[Len(held)])))

\* tree::Builder::chain_lone_child
ChainLoneChildOf ==
    /\ Len(held) >= 1
    /\ NodesIn(held) < MaxNodes
    /\ Calls("chain_lone_child", Len(held) - 1, Ok(chain_lone_child(held[Len(held)])))

\* tree::Builder::collect_children_from over the last k held trees
CollectChildrenFrom ==
    /\ NodesIn(held) < MaxNodes
    /\ \E k \in 0 .. Len(held) :
          Calls("collect_children_from", Len(held) - k,
                collect_children_from(Moved(Len(held) - k)))

\* tree::parallel::Builder::collect_children_from over the last k held trees
ParCollectChildren ==
    /\ NodesIn(held) < MaxNodes
    /\ \E k \in 0 .. Len(held) :
          Calls("par_collect_children_from", Len(held) - k,
                par_collect_children_from(Moved(Len(held) - k)))

RECURSIVE push_trees(_, _)
push_trees(nodes, trees) ==
    IF trees = <<>> THEN nodes
    ELSE push_trees(push_tree(nodes, trees[1]), Tail(trees))

\* A fresh tree::Builder, push_tree of the last k held trees, complete.
PushTreesComplete ==
    \E k \in 0 .. Len(held) :
       /\ k = 1 \/ NodesIn(held) < MaxNodes
       /\ Calls("push_tree_complete", Len(held) - k,
                complete(push_trees(<<>>, Moved(Len(held) - k))))

\* A fresh tree::Builder, push_leaf, complete.
PushLeafComplete ==
    /\ Len(held) < MaxHeld
    /\ NodesIn(held) < MaxNodes
    /\ \E it \in LeafInputs :
          Calls("push_leaf_complete", Len(held), balanced_leaf(it))

\* ------------------------------------------------ equality and hashing --
\* A value of one of the four types: "MerkleTree", "Node", "LeafNode" or
\* "HashNode", with the node it is (a tree's root for MerkleTree).
View(type, node) == [type |-> type, node |-> node]

\* The values a caller gets from a tree: the tree, root(), and the LeafNode or
\* HashNode it destructures the root to.
Views(tree) ==
    { View("MerkleTree", tree.root), View("Node", tree.root),
      View(IF tree.root.kind = "Leaf" THEN "LeafNode" ELSE "HashNode", tree.root) }

\* LeafNode == LeafNode that also compares the leaf data.
leaf_eq_with_data(lhs, rhs) == lhs.hash = rhs.hash /\ lhs.data = rhs.data

\* <LeafNode> for LeafNode
leaf_eq(lhs, rhs) == lhs.hash = rhs.hash

\* <HashNode> for HashNode
hash_eq(lhs, rhs) == lhs.hash = rhs.hash

\* Node == Node by the hash alone, whatever the variants.
node_eq_any_variant(lhs, rhs) == lhs.hash = rhs.hash

\* <Node> for Node
node_eq(lhs, rhs) ==
    CASE lhs.kind = "Leaf" /\ rhs.kind = "Leaf" -> leaf_eq(lhs, rhs)
      [] lhs.kind = "Hash" /\ rhs.kind = "Hash" -> hash_eq(lhs, rhs)
      [] OTHER -> FALSE

\* <LeafNode> for Node
node_eq_leaf(lhs, other) == IF lhs.kind = "Leaf" THEN leaf_eq(lhs, other) ELSE FALSE

\* <HashNode> for Node
node_eq_hash(lhs, other) == IF lhs.kind = "Hash" THEN hash_eq(lhs, other) ELSE FALSE

\* LeafNode == Node by the hash alone, whatever the variant of the node.
leaf_eq_node_any_variant(lhs, other) == leaf_eq(lhs, other)

\* <Node> for LeafNode
leaf_eq_node(lhs, other) == IF other.kind = "Leaf" THEN leaf_eq(lhs, other) ELSE FALSE

\* <Node> for HashNode
hash_eq_node(lhs, other) == IF other.kind = "Hash" THEN hash_eq(lhs, other) ELSE FALSE

\* There is no PartialEq between LeafNode and HashNode.
Comparable(a, b) == {a.type, b.type} # {"LeafNode", "HashNode"}

\* a == b, by the PartialEq implementation for the two types; MerkleTree
\* operands are replaced by their root() first.
eq(a, b) ==
    LET lhs == IF a.type = "MerkleTree" THEN "Node" ELSE a.type
        rhs == IF b.type = "MerkleTree" THEN "Node" ELSE b.type
    IN  CASE lhs = "Node" /\ rhs = "Node" -> node_eq(a.node, b.node)
          [] lhs = "Node" /\ rhs = "LeafNode" -> node_eq_leaf(a.node, b.node)
          [] lhs = "Node" /\ rhs = "HashNode" -> node_eq_hash(a.node, b.node)
          [] lhs = "LeafNode" /\ rhs = "Node" -> leaf_eq_node(a.node, b.node)
          [] lhs = "HashNode" /\ rhs = "Node" -> hash_eq_node(a.node, b.node)
          [] lhs = "LeafNode" /\ rhs = "LeafNode" -> leaf_eq(a.node, b.node)
          [] lhs = "HashNode" /\ rhs = "HashNode" -> hash_eq(a.node, b.node)

\* What std::hash::Hash::hash feeds to the hasher state: the node hash.
std_hash(a) == a.node.hash

\* The caller compares two of its trees, or values borrowed from them, and
\* hashes both operands.
Compare ==
    /\ Len(held) = 2
    /\ \E i, j \in 1 .. 2 : \E a \in Views(held[i]), b \in Views(held[j]) :
          /\ Comparable(a, b)
          /\ call' = [name |-> "eq", args |-> <<a, b>>, result |-> eq(a, b),
                      fed |-> <<std_hash(a), std_hash(b)>>]
    /\ UNCHANGED <<held, iters>>
    /\ UNCHANGED build

TreeNext ==
    \/ MakeLeaf
    \/ Join
    \/ ChainLoneChildOf
    \/ CollectChildrenFrom
    \/ ParCollectChildren
    \/ PushTreesComplete
    \/ PushLeafComplete
    \/ Compare

TreeSpec == TreeInit /\ [][TreeNext]_vars

\* The caller compares three values borrowed from its trees, the first
\* with the second both ways round, the second with the third, and the first
\* with the third where the two types can be compared, and hashes the three.
\* A comparison changes nothing it compares, so one is recorded at a time.
CompareThree ==
    /\ Len(held) >= 2
    /\ call.name # "eq3"
    /\ \E i, j, k \in DOMAIN held :
       \E a \in Views(held[i]), b \in Views(held[j]), c \in Views(held[k]) :
          /\ Comparable(a, b)
          /\ Comparable(b, c)
          /\ call' = [name |-> "eq3", args |-> <<a, b, c>>,
                      ab |-> eq(a, b), ba |-> eq(b, a),
                      bc |-> eq(b, c), cb |-> eq(c, b),
                      ac |-> IF Comparable(a, c) THEN <<eq(a, c)>> ELSE <<>>,
                      fed |-> <<std_hash(a), std_hash(b), std_hash(c)>>]
    /\ UNCHANGED <<held, iters>>
    /\ UNCHANGED build

EqNext ==
    \/ MakeLeaf
    \/ Join
    \/ ChainLoneChildOf
    \/ CompareThree

EqSpec == TreeInit /\ [][EqNext]_vars

\* ------------------------------------------------- Children iterators ----
\* The most children of the node iterated over.
MaxChildren == 4

None == [tag |-> "None"]
Some(index, node) == [tag |-> "Some", index |-> index, node |-> node]

\* HashNode::children: Children(self.children.iter()), a slice::Iter over
\* nodes[front .. back).
children_iter(node) == [nodes |-> node.children, front |-> 0, back |-> Len(node.children)]

\* Children::next, which is slice::Iter::next
children_next(it) ==
    IF it.front = it.back THEN [iter |-> it, item |-> None]
    ELSE [iter |-> [it EXCEPT !.front = @ + 1],
          item |-> Some(it.front, it.nodes[it.front + 1])]

\* next_back that stops at the start of the slice, not at the front.
children_next_back_to_start(it) ==
    IF it.back = 0 THEN [iter |-> it, item |-> None]
    ELSE [iter |-> [it EXCEPT !.back = @ - 1],
          item |-> Some(it.back - 1, it.nodes[it.back])]

\* Children::next_back, which is slice::Iter::next_back
children_next_back(it) ==
    IF it.front = it.back THEN [iter |-> it, item |-> None]
    ELSE [iter |-> [it EXCEPT !.back = @ - 1],
          item |-> Some(it.back - 1, it.nodes[it.back])]

\* Children::len, which is slice::Iter::len
children_len(it) == it.back - it.front

\* Children::clone
children_clone(it) == it

\* An iterator the caller holds, with the items it has yielded so far (those
\* of the iterator it was cloned from included).
Held(it, yielded) == [iter |-> it, yielded |-> yielded]

\* The caller collects a tree over the leaves of an input.
IterCollect ==
    /\ held = <<>>
    /\ \E it \in Inputs :
          /\ Len(it) \in 1 .. MaxChildren
          /\ held' = <<collect_children_from(LeafTrees(it)).tree>>
          /\ call' = [name |-> "collect_children_from", args |-> LeafTrees(it),
                      result |-> collect_children_from(LeafTrees(it))]
    /\ UNCHANGED iters
    /\ UNCHANGED build

\* hn.children() on the root of the tree
IterChildren ==
    /\ held # <<>>
    /\ iters = <<>>
    /\ iters' = << Held(children_iter(held[1].root), <<>>) >>
    /\ call' = [name |-> "children", args |-> <<1>>, result |-> None]
    /\ UNCHANGED held
    /\ UNCHANGED build

\* A call of next or next_back on the k-th iterator.
IterYield(k, name, res) ==
    /\ iters' = [iters EXCEPT ![k] =
                    Held(res.iter,
                         IF res.item = None THEN @.yielded
                         ELSE Append(@.yielded, [end |-> name, index |-> res.item.index]))]
    /\ call' = [name |-> name, args |-> <<k>>, result |-> res.item]
    /\ UNCHANGED held
    /\ UNCHANGED build

IterNext(k) == IterYield(k, "next", children_next(iters[k].iter))

IterNextBack(k) == IterYield(k, "next_back", children_next_back(iters[k].iter))

IterLen(k) ==
    /\ call' = [name |-> "len", args |-> <<k>>, result |-> children_len(iters[k].iter)]
    /\ UNCHANGED <<held, iters>>
    /\ UNCHANGED build

\* The caller clones its iterator, once.
IterClone ==
    /\ Len(iters) = 1
    /\ iters' = Append(iters, Held(children_clone(iters[1].iter), iters[1].yielded))
    /\ call' = [name |-> "clone", args |-> <<1>>, result |-> None]
    /\ UNCHANGED held
    /\ UNCHANGED build

IterNextStep ==
    \/ IterCollect
    \/ IterChildren
    \/ \E k \in DOMAIN iters : IterNext(k)
    \/ \E k \in DOMAIN iters : IterNextBack(k)
    \/ \E k \in DOMAIN iters : IterLen(k)
    \/ IterClone

IterSpec == TreeInit /\ [][IterNextStep]_vars

\* ------------------------------------------------ NodeHashes iterators ----
\* The most items the caller takes from one NodeHashes iterator.
MaxTaken == 6

\* DynHashSlice::hash_at for a slice of nodes: self[index].hash()
hash_at(nodes, index) == nodes[index + 1].hash

\* HashNode::child_hashes
child_hashes(node) == [nodes |-> node.children, pos |-> 0, len |-> Len(node.children)]

\* NodeHashes::next
hashes_next(it) ==
    IF it.pos = it.len THEN [iter |-> it, item |-> None]
    ELSE [iter |-> [it EXCEPT !.pos = @ + 1],
          item |-> Some(it.pos, hash_at(it.nodes, it.pos))]

\* NodeHashes::nth
hashes_nth(it, n) ==
    IF n >= it.len - it.pos THEN [iter |-> it, item |-> None]
    ELSE [iter |-> [it EXCEPT !.pos = it.pos + n + 1],
          item |-> Some(it.pos + n, hash_at(it.nodes, it.pos + n))]

\* NodeHashes::next_back
hashes_next_back(it) ==
    IF it.pos = 0 THEN [iter |-> it, item |-> None]
    ELSE [iter |-> [it EXCEPT !.pos = @ - 1],
          item |-> Some(it.pos - 1, hash_at(it.nodes, it.pos - 1))]

\* NodeHashes::size_hint
hashes_size_hint(it) == << it.len - it.pos, it.len - it.pos >>

\* NodeHashes::count
hashes_count(it) == it.len - it.pos

\* ExactSizeIterator::len for NodeHashes
hashes_len(it) == it.len

\* The number of items a run of next() calls yields before it returns None.
RECURSIVE hashes_drain(_)
hashes_drain(it) ==
    IF hashes_next(it).item = None THEN 0
    ELSE 1 + hashes_drain(hashes_next(it).iter)

\* hn.child_hashes() on the root of the tree
HashesChildHashes ==
    /\ held # <<>>
    /\ iters = <<>>
    /\ iters' = << Held(child_hashes(held[1].root), <<>>) >>
    /\ call' = [name |-> "child_hashes", args |-> <<1>>, result |-> None]
    /\ UNCHANGED held
    /\ UNCHANGED build

\* A call of next, nth or next_back on the iterator.
HashesYield(name, n, res) ==
    /\ Len(iters[1].yielded) < MaxTaken
    /\ iters' = << Held(res.iter,
                        IF res.item = None THEN iters[1].yielded
                        ELSE Append(iters[1].yielded,
                                    [end |-> name, index |-> res.item.index,
                                     hash |-> res.item.node])) >>
    /\ call' = [name |-> name, args |-> <<n>>, result |-> res.item]
    /\ UNCHANGED held
    /\ UNCHANGED build

HashesNext == iters # <<>> /\ HashesYield("next", 0, hashes_next(iters[1].iter))

HashesNth ==
    /\ iters # <<>>
    /\ \E n \in 0 .. MaxChildren : HashesYield("nth", n, hashes_nth(iters[1].iter, n))

HashesNextBack ==
    iters # <<>> /\ HashesYield("next_back", 0, hashes_next_back(iters[1].iter))

\* len(), size_hint() and count() of the iterator as it is, and what next()
\* goes on to yield from there.
HashesLen ==
    /\ iters # <<>>
    /\ call' = [name |-> "len", args |-> <<1>>,
                result |-> hashes_len(iters[1].iter),
                size_hint |-> hashes_size_hint(iters[1].iter),
                count |-> hashes_count(iters[1].iter),
                yet_to_yield |-> hashes_drain(iters[1].iter)]
    /\ UNCHANGED <<held, iters>>
    /\ UNCHANGED build

HashesNextStep ==
    \/ IterCollect
    \/ HashesChildHashes
    \/ HashesNext
    \/ HashesNth
    \/ HashesNextBack
    \/ HashesLen

HashesSpec == TreeInit /\ [][HashesNextStep]_vars

\* ------------------------------------- a caller using every operation ----

\* The reduction of a parallel build run on one thread, left before right.
RECURSIVE SeqReduce(_, _, _)
SeqReduce(name, nodes, perfect_len) ==
    IF name = "par_complete"
    THEN LET case == reduce_complete_case(Len(nodes), perfect_len)
             left_len == perfect_len \div 2
         IN  IF case = "chain"
             THEN chain_lone_child(SeqReduce(name, nodes, left_len))
             ELSE IF case = "leaf" THEN nodes[Len(nodes)]
             ELSE join(SeqReduce(name, split_off_keep(nodes, left_len), left_len),
                       SeqReduce(name, split_off(nodes, left_len), left_len))
    ELSE IF Len(nodes) = 1 THEN nodes[1]
    ELSE LET left_len == IF name = "par_full" THEN full_left_len(Len(nodes))
                         ELSE balanced_left_len(Len(nodes))
         IN  join(SeqReduce(name, split_off_keep(nodes, left_len), 0),
                  SeqReduce(name, split_off(nodes, left_len), 0))

SeqBuild(name, it) ==
    SeqReduce(name, LeafTrees(it),
              IF name = "par_complete" THEN checked_next_power_of_two(Len(it)) ELSE 0)

\* A parallel bulk build from its entry to its result, on one thread.
bulk_build(name, it) ==
    IF Iter(it).len = 0 THEN EmptyTree
    ELSE IF name = "par_complete" /\ checked_next_power_of_two(Len(it)) = 0
    THEN Panicked
    ELSE Ok(SeqBuild(name, it))

\* The caller builds a tree from an input with one of the bulk builds.
BulkBuild ==
    /\ Len(held) < MaxHeld
    /\ NodesIn(held) < MaxNodes
    /\ \E name \in {"seq_complete"} \cup ParOps : \E it \in ByteInputs :
          /\ Len(it) <= MaxHeld
          /\ CallsWith(name, Len(held), <<it>>,
                       IF name = "seq_complete" THEN complete_tree_from(Iter(it))
                       ELSE bulk_build(name, it))

OpsNext ==
    \/ MakeLeaf
    \/ Join
    \/ ChainLoneChildOf
    \/ CollectChildrenFrom
    \/ ParCollectChildren
    \/ BulkBuild

OpsSpec == TreeInit /\ [][OpsNext]_vars

\* ------------------------------------- the lengths of the reductions ----
Policies == {"seq_complete"} \cup ParOps

CompletePolicies == {"seq_complete", "par_complete"}

\* What one call of a reduction computes from the length it receives, before
\* it recurses: the branch it takes and the lengths it hands on.
\* extract_complete_tree and reduce_complete for the complete policies,
\* reduce_full, and the balanced reduce.
Reduction(policy, n, len, perfect_len) ==
    LET left_len == IF policy \in CompletePolicies THEN perfect_len \div 2
                    ELSE IF policy = "par_full" THEN full_left_len(len)
                    ELSE balanced_left_len(len)
    IN  [name |-> "reduce", policy |-> policy, n |-> n, len |-> len,
         perfect_len |-> perfect_len, left_len |-> left_len,
         case |-> IF len = 0 THEN "assert"
                  ELSE IF policy \in CompletePolicies THEN reduce_complete_case(len, perfect_len)
                  ELSE IF len = 1 THEN "leaf"
                  ELSE IF left_len > len THEN "split_off"
                  ELSE "fork"]

\* A bulk build of n inputs makes its top-level call of the reduction; a
\* complete build whose power of two does not fit panics in unwrap() first.
Enter ==
    /\ call = NoCall
    /\ \E policy \in Policies : \E n \in 1 .. UsizeMax :
       LET perfect_len == IF policy \in CompletePolicies
                          THEN checked_next_power_of_two(n) ELSE 0
       IN  /\ call' = IF policy \in CompletePolicies /\ perfect_len = 0
                      THEN [name |-> "unwrap", policy |-> policy, n |-> n]
                      ELSE Reduction(policy, n, n, perfect_len)
           /\ UNCHANGED <<held, iters>>
           /\ UNCHANGED build

\* The call made for the left part: the recursive call of the chain branch,
\* or the first of the two calls of a fork.
Left ==
    /\ call.name = "reduce"
    /\ call.case \in {"chain", "fork"}
    /\ call' = Reduction(call.policy, call.n,
                         IF call.case = "chain" THEN call.len ELSE call.left_len,
                         IF call.policy \in CompletePolicies THEN call.left_len ELSE 0)
    /\ UNCHANGED <<held, iters>>
    /\ UNCHANGED build

\* The call made for the right part of a fork: len - left_len items.
Right ==
    /\ call.name = "reduce"
    /\ call.case = "fork"
    /\ call' = Reduction(call.policy, call.n, call.len - call.left_len,
                         IF call.policy \in CompletePolicies THEN call.left_len ELSE 0)
    /\ UNCHANGED <<held, iters>>
    /\ UNCHANGED build

LenNext ==
    \/ Enter
    \/ Left
    \/ Right

LenSpec == TreeInit /\ [][LenNext]_vars

\* --------------------- iterators whose length is not what they yield ----
\* The most items such an iterator yields.
MaxYield == 5

\* An iterator that reports len and yields items.
LyingIter(items, len) == [items |-> items, len |-> len]

\* complete_tree_from that builds from whatever the iterator yields.
complete_tree_from_in_lenient(debug_assertions, iterable) ==
    complete_tree_from(Iter(iterable.items))

\* Builder::complete_tree_from in a build with or without debug assertions:
\* without them debug_assert!(iter.next().is_none()) is compiled out.
complete_tree_from_in(debug_assertions, iterable) ==
    IF debug_assertions THEN complete_tree_from(iterable)
    ELSE LET len == iterable.len IN
         IF len = 0 THEN EmptyTree
         ELSE LET perfect_len == checked_next_power_of_two(len) IN
              IF perfect_len = 0 THEN Panicked
              ELSE LET res == extract_complete_tree(iterable.items, len, perfect_len) IN
                   IF res.panic THEN Panicked ELSE Ok(res.tree)

\* rayon's collect() of an indexed parallel iterator into a Vec.  The crate is
\* not part of the repository: it may notice that the iterator did not yield
\* the length it reported and panic, or return what was yielded.
rayon_collect(iter, checks_len) ==
    IF checks_len /\ Len(iter.items) # iter.len THEN Panicked
    ELSE [tag |-> "Vec", items |-> iter.items]

\* tree::parallel::Builder::complete_tree_from_iter and full_tree_from_iter
par_tree_from_iter(name, iter, checks_len) ==
    IF iter.len = 0 THEN EmptyTree
    ELSE LET collected == rayon_collect(iter, checks_len) IN
         IF collected = Panicked THEN Panicked
         ELSE IF Len(collected.items) = 0 THEN Panicked
         ELSE bulk_build(name, collected.items)

\* A caller hands a bulk build an iterator that may misreport its length.
BuildFromLying ==
    /\ call = NoCall
    /\ \E name \in {"seq_complete", "par_complete", "par_full"} :
       \E it \in Inputs : \E len \in 0 .. MaxYield + 2 :
       \E debug_assertions \in BOOLEAN : \E checks_len \in BOOLEAN :
          /\ Len(it) <= MaxYield
          /\ call' = [name |-> name, args |-> <<LyingIter(it, len)>>,
                      debug_assertions |-> debug_assertions,
                      checks_len |-> checks_len,
                      result |-> IF name = "seq_complete"
                                 THEN complete_tree_from_in(debug_assertions,
                                                            LyingIter(it, len))
                                 ELSE par_tree_from_iter(name, LyingIter(it, len),
                                                         checks_len)]
    /\ UNCHANGED <<held, iters>>
    /\ UNCHANGED build

\* The caller keeps the tree a build returned.
KeepTree ==
    /\ call.name \in {"seq_complete", "par_complete", "par_full"}
    /\ held = <<>>
    /\ call.result.tag = "Ok"
    /\ held' = <<call.result.tree>>
    /\ UNCHANGED <<call, iters>>
    /\ UNCHANGED build

LyingNext ==
    \/ BuildFromLying
    \/ KeepTree

LyingSpec == TreeInit /\ [][LyingNext]_vars

\* ------------------------------------------------- tree observations ----
\* The leaf nodes under node, depth first, left to right.
RECURSIVE LeafSeq(_)
LeafSeq(node) ==
    IF node.kind = "Leaf" THEN <<node>>
    ELSE LET RECURSIVE Cat(_)
             Cat(i) == IF i > Len(node.children) THEN <<>>
                       ELSE LeafSeq(node.children[i]) \o Cat(i + 1)
         IN  Cat(1)

\* The depths, counted from node at depth d, at which leaves are found.
RECURSIVE LeafDepths(_, _)
LeafDepths(node, d) ==
    IF node.kind = "Leaf" THEN {d}
    ELSE UNION { LeafDepths(node.children[i], d + 1) : i \in DOMAIN node.children }

\* The nodes d levels below node, left to right.
RECURSIVE Level(_, _)
Level(node, d) ==
    IF d = 0 THEN <<node>>
    ELSE IF node.kind = "Leaf" THEN <<>>
    ELSE LET RECURSIVE Cat(_)
             Cat(i) == IF i > Len(node.children) THEN <<>>
                       ELSE Level(node.children[i], d - 1) \o Cat(i + 1)
         IN  Cat(1)

\* A perfect binary tree: a leaf, or two perfect subtrees of the same size.
RECURSIVE IsPerfect(_)
IsPerfect(node) ==
    \/ node.kind = "Leaf"
    \/ /\ node.kind = "Hash"
       /\ Len(node.children) = 2
       /\ IsPerfect(node.children[1])
       /\ IsPerfect(node.children[2])
       /\ Len(LeafSeq(node.children[1])) = Len(LeafSeq(node.children[2]))

\* The least power of two >= n, and its logarithm.
IsPow2(p) == \E k \in 0 .. UsizeBits : p = 2^k
LeastPow2(n) ==
    CHOOSE p \in 1 .. 2 * n :
        IsPow2(p) /\ p >= n /\ \A q \in 1 .. p - 1 : IsPow2(q) => q < n
Log2(p) == CHOOSE k \in 0 .. UsizeBits : p = 2^k
CeilHalf(m) == (m + 1) \div 2

LeafCount(node) == Len(LeafSeq(node))
Height(node) == CHOOSE d \in LeafDepths(node, 0) : \A e \in LeafDepths(node, 0) : e <= d

\* The number of single-child hash nodes from node down to a leaf, or -1 when
\* node is not such a chain.
RECURSIVE ChainLen(_)
ChainLen(node) ==
    IF node.kind = "Leaf" THEN 0
    ELSE IF Len(node.children) # 1 THEN -1
    ELSE LET below == ChainLen(node.children[1])
         IN  IF below < 0 THEN -1 ELSE below + 1

\* A leaf node and a hash node written out, as Leaf(x) and Internal([..]).
Leaf(x) == LeafNode(hash_input(x), extract_data(x))
Internal(children) == HashNode(hash_children(children), children)

Root == result.tree.root
CompleteOps == {"seq_complete", "par_complete"}
BulkOps == {"seq_complete", "par_complete", "par_full", "par_balanced"}
AllOps == BulkOps \cup {"seq_collect", "par_collect"}
Returned(ops) == pc = "done" /\ op \in ops

\* ------------------------------------------------------------- claims ----
\* C1: for every non-empty input, the parallel complete_tree_from returns,
\* under every schedule of its tasks, the very tree the sequential
\* complete_tree_from returns on the same input: same variants, hashes, child
\* counts and child order at every position.
C1_ParallelCompleteEqualsSequential ==
    (Returned({"par_complete"}) /\ Len(input) >= 1)
        => /\ result.tag = "Ok"
           /\ result = complete_tree_from(Iter(input))

C1_Witness ==
    /\ Returned({"par_complete"})
    /\ Len(input) = 7
    /\ result.tag = "Ok"
    /\ Root.kind = "Hash"

\* C2: every build entry point called with zero input elements returns the
\* EmptyTree error, and no leaf hash or children hash has been computed and no
\* leaf or reduction exists when it returns.
C2_EmptyInputIsEmptyTree ==
    (op \in AllOps /\ Len(input) = 0)
        => /\ pc = "done"
           /\ result = EmptyTree
           /\ hash_input_calls = 0
           /\ hash_children_calls = 0
           /\ leaves = <<>>
           /\ frames = NoFrames

C2_Witness ==
    /\ Returned({"seq_collect"})
    /\ Len(input) = 0
    /\ result = EmptyTree

\* C3: for an input of exactly one element every bulk build returns a tree
\* whose root is a leaf node carrying hash_input of that element.
C3_SingletonIsLeaf ==
    (Returned(BulkOps) /\ Len(input) = 1)
        => /\ result.tag = "Ok"
           /\ Root.kind = "Leaf"
           /\ Root.hash = hash_input(input[1])

C3_Witness ==
    /\ Returned({"par_full"})
    /\ Len(input) = 1
    /\ Len(input[1]) = 2
    /\ result.tag = "Ok"
    /\ Root.kind = "Leaf"

\* C4: for an input of n >= 2 elements and every shape policy, the leaves of
\* the built tree, depth first and left to right, are exactly n, the i-th
\* carrying the hash and the leaf data of the i-th input element.
C4_LeafOrderIsInputOrder ==
    (Returned(BulkOps) /\ Len(input) >= 2)
        => /\ result.tag = "Ok"
           /\ LeafSeq(Root) =
                [i \in 1 .. Len(input) |->
                    LeafNode(hash_input(input[i]), extract_data(input[i]))]

C4_Witness ==
    /\ Returned({"par_balanced"})
    /\ Len(input) = 5
    /\ result.tag = "Ok"
    /\ Len(LeafSeq(Root)) = 5

\* C5: in a complete tree built from n >= 1 inputs every leaf is at the same
\* depth, log2 of the least power of two >= n.
C5_CompleteLeavesAtSameDepth ==
    (Returned(CompleteOps) /\ Len(input) >= 1)
        => /\ result.tag = "Ok"
           /\ LeafDepths(Root, 0) = { Log2(LeastPow2(Len(input))) }

C5_Witness ==
    /\ Returned({"par_complete"})
    /\ Len(input) = 6
    /\ result.tag = "Ok"
    /\ LeafDepths(Root, 0) = {3}

\* C6: in a complete tree built from n >= 2 inputs the left subtree of the
\* root is a perfect binary tree: it has P/2 leaves, P the least power of two
\* >= n, and every internal node in it has exactly two children.
C6_CompleteLeftSubtreePerfect ==
    (Returned(CompleteOps) /\ Len(input) >= 2)
        => /\ result.tag = "Ok"
           /\ Root.kind = "Hash"
           /\ LeafCount(Root.children[1]) = LeastPow2(Len(input)) \div 2
           /\ \A nd \in InternalNodesOf(Root.children[1]) : Len(nd.children) = 2
           /\ IsPerfect(Root.children[1])

C6_Witness ==
    /\ Returned({"seq_complete"})
    /\ Len(input) = 5
    /\ result.tag = "Ok"
    /\ LeafCount(Root.children[1]) = 4

\* C7: in a complete tree built from n >= 1 inputs every internal node has
\* one or two children and at least one leaf below it, and an internal node
\* with one child is the rightmost node of its level.
C7_CompleteLeftPacked ==
    (Returned(CompleteOps) /\ Len(input) >= 1)
        => /\ result.tag = "Ok"
           /\ \A nd \in InternalNodesOf(Root) :
                 Len(nd.children) \in {1, 2} /\ LeafCount(nd) >= 1
           /\ \A d \in 0 .. Height(Root) :
                 LET level == Level(Root, d) IN
                 \A i \in 1 .. Len(level) :
                     (level[i].kind = "Hash" /\ Len(level[i].children) = 1)
                         => i = Len(level)

C7_Witness ==
    /\ Returned({"seq_complete"})
    /\ Len(input) = 6
    /\ result.tag = "Ok"
    /\ Len(Level(Root, 1)) = 2
    /\ Len(Level(Root, 1)[2].children) = 1

\* C8: for n = 2^k + 1 inputs, k >= 1, the complete tree is a root with two
\* children, the first a perfect binary tree over the first 2^k inputs, the
\* second a chain of exactly k single-child nodes ending in the leaf of the
\* last input; for three inputs a, b, c it is
\* Internal([Internal([Leaf(a), Leaf(b)]), Internal([Leaf(c)])]).
C8_CompleteOfPowerOfTwoPlusOne ==
    \A k \in 1 .. UsizeBits :
        (Returned(CompleteOps) /\ Len(input) = 2^k + 1)
            => /\ result.tag = "Ok"
               /\ Root.kind = "Hash"
               /\ Len(Root.children) = 2
               /\ IsPerfect(Root.children[1])
               /\ LeafSeq(Root.children[1]) = [i \in 1 .. 2^k |-> Leaf(input[i])]
               /\ ChainLen(Root.children[2]) = k
               /\ LeafSeq(Root.children[2]) = << Leaf(input[2^k + 1]) >>
               /\ (k = 1 =>
                     Root = Internal(<< Internal(<< Leaf(input[1]), Leaf(input[2]) >>),
                                        Internal(<< Leaf(input[3]) >>) >>))

C8_Witness ==
    /\ Returned({"par_complete"})
    /\ Len(input) = 5
    /\ result.tag = "Ok"
    /\ ChainLen(Root.children[2]) = 2

\* C9: in a full tree built from n >= 2 inputs every internal node has
\* exactly two children; where it spans m leaves, its left child is a perfect
\* binary tree of nextPowerOfTwo(ceil(m/2)) leaves and its right child spans
\* the other leaves.
C9_FullLeftSubtreesPerfect ==
    (Returned({"par_full"}) /\ Len(input) >= 2)
        => /\ result.tag = "Ok"
           /\ Root.kind = "Hash"
           /\ \A nd \in InternalNodesOf(Root) :
                 LET m == LeafCount(nd) IN
                 /\ Len(nd.children) = 2
                 /\ IsPerfect(nd.children[1])
                 /\ LeafCount(nd.children[1]) = LeastPow2(CeilHalf(m))
                 /\ LeafCount(nd.children[2]) = m - LeastPow2(CeilHalf(m))

C9_Witness ==
    /\ Returned({"par_full"})
    /\ Len(input) = 7
    /\ result.tag = "Ok"
    /\ LeafCount(Root.children[1]) = 4
    /\ LeafCount(Root.children[2]) = 3

\* C10: in a balanced tree built from n >= 2 inputs every internal node has
\* exactly two children; of the m leaves under it the left child spans
\* ceil(m/2) and the right child floor(m/2); for three inputs a, b, c the tree
\* is Internal([Internal([Leaf(a), Leaf(b)]), Leaf(c)]).
C10_BalancedSplits ==
    (Returned({"par_balanced"}) /\ Len(input) >= 2)
        => /\ result.tag = "Ok"
           /\ Root.kind = "Hash"
           /\ \A nd \in InternalNodesOf(Root) :
                 LET m == LeafCount(nd) IN
                 /\ Len(nd.children) = 2
                 /\ LeafCount(nd.children[1]) = CeilHalf(m)
                 /\ LeafCount(nd.children[2]) = m \div 2
           /\ (Len(input) = 3 =>
                 Root = Internal(<< Internal(<< Leaf(input[1]), Leaf(input[2]) >>),
                                    Leaf(input[3]) >>))

C10_Witness ==
    /\ Returned({"par_balanced"})
    /\ Len(input) = 3
    /\ result.tag = "Ok"
    /\ Root.children[2].kind = "Leaf"

\* ------------------------------------------------------------------ C11 --
SinglePushOrCollect ==
    \/ call.name = "push_leaf_complete"
    \/ /\ call.name \in {"push_tree_complete", "collect_children_from",
                         "par_collect_children_from"}
       /\ Len(call.args) = 1

\* C11 as stated: finalizing one pending node (complete after a single
\* push_leaf or push_tree, collect_children_from over one tree) returns that
\* node as the root, no children hash computed, no wrapping hash node.
C11_SinglePendingIsRootVerbatim ==
    SinglePushOrCollect =>
        /\ call.result.tag = "Ok"
        /\ call.hash_children_calls = 0
        /\ IF call.name = "push_leaf_complete"
           THEN call.result.tree.root.kind = "Leaf"
           ELSE call.result.tree.root = call.args[1].root

\* C11 as amended: complete after a single push_leaf or push_tree returns the
\* pushed node as the root with no children hash computed, while
\* collect_children_from (sequential and parallel) over one tree returns a
\* hash node whose only child is that tree's root, computing one children
\* hash over it.
C11_SinglePushIsRootSingleCollectWraps ==
    SinglePushOrCollect =>
        /\ call.result.tag = "Ok"
        /\ call.name = "push_leaf_complete" =>
              /\ \E it \in LeafInputs :
                    call.result.tree.root = LeafNode(hash_input(it), extract_data(it))
              /\ call.hash_children_calls = 0
        /\ call.name = "push_tree_complete" =>
              /\ call.result.tree.root = call.args[1].root
              /\ call.hash_children_calls = 0
        /\ call.name \in {"collect_children_from", "par_collect_children_from"} =>
              /\ call.result.tree.root.kind = "Hash"
              /\ call.result.tree.root.children = <<call.args[1].root>>
              /\ call.result.tree.root.hash = hash_children(<<call.args[1].root>>)
              /\ call.hash_children_calls = 1

C11_Witness ==
    /\ call.name = "collect_children_from"
    /\ Len(call.args) = 1
    /\ call.args[1].root.kind = "Hash"
    /\ call.result.tag = "Ok"

\* ------------------------------------------------------------------ C12 --
\* C12: collect_children_from (sequential and parallel) over k >= 2 trees
\* returns a hash node with exactly k children, the i-th being the root of the
\* i-th given tree, whose hash is hash_children of those k roots in that order.
C12_CollectKeepsRootsInOrder ==
    (/\ call.name \in {"collect_children_from", "par_collect_children_from"}
     /\ Len(call.args) >= 2) =>
        /\ call.result.tag = "Ok"
        /\ LET root == call.result.tree.root
               given == [i \in 1 .. Len(call.args) |-> call.args[i].root]
           IN  /\ root.kind = "Hash"
               /\ Len(root.children) = Len(call.args)
               /\ \A i \in 1 .. Len(call.args) : root.children[i] = call.args[i].root
               /\ root.hash = hash_children(given)

C12_Witness ==
    /\ call.name = "par_collect_children_from"
    /\ Len(call.args) = 3
    /\ call.args[1] # call.args[3]
    /\ call.result.tag = "Ok"

\* ------------------------------------------------------------------ C13 --
\* C13: join(left, right) returns a hash node with exactly two children, the
\* root of left and then the root of right, each with the variant, hash, leaf
\* data and children it had; the one children hash computed is the new root's.
C13_JoinAbsorbsSubtreesUnchanged ==
    call.name = "join" =>
        /\ call.result.tag = "Ok"
        /\ LET root == call.result.tree.root
           IN  /\ root.kind = "Hash"
               /\ Len(root.children) = 2
               /\ root.children[1] = call.args[1].root
               /\ root.children[2] = call.args[2].root
               /\ NodesOf(call.args[1].root) \cup NodesOf(call.args[2].root)
                     \subseteq NodesOf(root)
        /\ call.hash_children_calls = 1

C13_Witness ==
    /\ call.name = "join"
    /\ call.args[1].root.kind = "Hash"
    /\ call.args[2].root.kind = "Leaf"
    /\ call.result.tag = "Ok"

\* ------------------------------------------------------------------ C14 --
\* C14: chain_lone_child(t) returns a hash node with exactly one child, the
\* root of t unchanged, whose hash is hash_children of that one child and is
\* not the child's own hash.
C14_ChainWrapsLoneChild ==
    call.name = "chain_lone_child" =>
        /\ call.result.tag = "Ok"
        /\ LET root == call.result.tree.root
               child == call.args[1].root
           IN  /\ root.kind = "Hash"
               /\ root.children = <<child>>
               /\ root.hash = hash_children(<<child>>)
               /\ root.hash # child.hash

C14_Witness ==
    /\ call.name = "chain_lone_child"
    /\ call.args[1].root.kind = "Hash"
    /\ Len(call.args[1].root.children) = 2
    /\ call.result.tag = "Ok"

\* ------------------------------------------------------------------ C17 --
\* C17: child_at(index) on a hash node with c children returns the child at
\* index when index < c and panics, returning no node, for every index >= c;
\* on the hash nodes of the trees of every build.
C17_ChildAtInRangeOrPanics ==
    call.name = "child_at" =>
        LET node == call.args[1]
            index == call.args[2]
            c == Len(node.children)
        IN  /\ node \in InternalNodesOf(Root)
            /\ index < c =>
                  /\ call.result.tag = "Node"
                  /\ call.result.node = node.children[index + 1]
            /\ index >= c => call.result = Panicked

C17_Witness ==
    /\ call.name = "child_at"
    /\ op = "par_complete"
    /\ Len(call.args[1].children) = 1
    /\ call.args[2] = 1
    /\ call.result = Panicked

\* ------------------------------------------------------------------ C15 --
\* C15: two leaf nodes, or trees whose roots are leaves, with equal hashes
\* compare equal under == whatever their leaf data, and feed the same value
\* to a std hasher.
C15_LeafEqualityIgnoresData ==
    (/\ call.name = "eq"
     /\ call.args[1].node.kind = "Leaf"
     /\ call.args[2].node.kind = "Leaf"
     /\ call.args[1].node.hash = call.args[2].node.hash) =>
        /\ call.result = TRUE
        /\ call.fed[1] = call.fed[2]

C15_Witness ==
    /\ call.name = "eq"
    /\ call.args[1].type = "MerkleTree"
    /\ call.args[2].type = "LeafNode"
    /\ call.args[1].node.kind = "Leaf"
    /\ call.args[1].node.hash = call.args[2].node.hash
    /\ call.args[1].node.data # call.args[2].node.data
    /\ call.result = TRUE

\* ------------------------------------------------------------------ C16 --
\* C16: a leaf node and a hash node never compare equal, in either operand
\* order, also when their hashes are equal and when either is behind a Node
\* or a MerkleTree.
C16_LeafNeverEqualsHashNode ==
    (/\ call.name = "eq"
     /\ call.args[1].node.kind # call.args[2].node.kind) =>
        call.result = FALSE

C16_Witness ==
    /\ call.name = "eq"
    /\ call.args[1].type = "MerkleTree"
    /\ call.args[2].type = "Node"
    /\ call.args[1].node.kind = "Hash"
    /\ call.args[2].node.kind = "Leaf"
    /\ call.args[1].node.hash = call.args[2].node.hash
    /\ call.result = FALSE

\* ------------------------------------------------------------------ C18 --
\* The indices an iterator has yielded from the end named.
YieldedFrom(yielded, end) == { i \in DOMAIN yielded : yielded[i].end = end }
YieldedIndices(yielded) == { yielded[i].index : i \in DOMAIN yielded }

\* C18: on a Children iterator over c children, under any interleaving of
\* next and next_back, next yields the children in index order from the
\* front, next_back in reverse order from the back, no child twice; once c
\* children are yielded both return None; len is the number not yet yielded;
\* a clone starts at the same position and the two advance independently.
C18_ChildrenIterator ==
    [][ call'.name \in {"next", "next_back", "len", "clone"} =>
          LET k == call'.args[1]
              nodes == held[1].root.children
              c == Len(nodes)
              before == iters[k].yielded
              nf == Cardinality(YieldedFrom(before, "next"))
              nb == Cardinality(YieldedFrom(before, "next_back"))
          IN  /\ \A j \in DOMAIN iters \ {k} : iters'[j] = iters[j]
              /\ call'.name = "next" =>
                    IF Len(before) = c
                    THEN call'.result = None /\ iters'[k] = iters[k]
                    ELSE /\ call'.result = Some(nf, nodes[nf + 1])
                         /\ nf \notin YieldedIndices(before)
                         /\ Len(iters'[k].yielded) = Len(before) + 1
              /\ call'.name = "next_back" =>
                    IF Len(before) = c
                    THEN call'.result = None /\ iters'[k] = iters[k]
                    ELSE /\ call'.result = Some(c - 1 - nb, nodes[c - nb])
                         /\ (c - 1 - nb) \notin YieldedIndices(before)
                         /\ Len(iters'[k].yielded) = Len(before) + 1
              /\ call'.name = "len" =>
                    call'.result = c - Len(before) /\ iters' = iters
              /\ call'.name = "clone" =>
                    /\ Len(iters') = Len(iters) + 1
                    /\ iters'[Len(iters')] = iters[k]
                    /\ iters'[k] = iters[k] ]_vars

C18_Witness ==
    /\ Len(iters) = 2
    /\ Len(held[1].root.children) >= 3
    /\ call.name = "next_back"
    /\ call.args = <<2>>
    /\ call.result = None
    /\ YieldedFrom(iters[2].yielded, "next") # {}
    /\ YieldedFrom(iters[2].yielded, "next_back") # {}
    /\ iters[1].yielded # iters[2].yielded

\* ------------------------------------------------------------------ C19 --
\* C19: whatever the order in which the leaf-mapping tasks and the forked
\* reductions run and complete, slot i of the mapped collection gets the leaf
\* of input i, a join makes the left task's tree child 0 and the right task's
\* child 1, and the build returns the one tree (so the one root hash) that
\* the input and the shape policy determine.
C19_ParallelBuildIsScheduleIndependent ==
    [][ /\ \A i \in DOMAIN leaves' :
              leaves'[i] # NoTree =>
                 leaves'[i].root = LeafNode(hash_input(input'[i]), extract_data(input'[i]))
        /\ \A p \in DOMAIN frames :
              (p \in DOMAIN frames' /\ frames[p].st = "join" /\ frames'[p].st = "done") =>
                 /\ frames'[p].tree.root.kind = "Hash"
                 /\ frames'[p].tree.root.children =
                        << frames[p \o <<0>>].tree.root, frames[p \o <<1>>].tree.root >>
        /\ (pc' = "done" /\ op' \in ParOps /\ result'.tag = "Ok") =>
              /\ result'.tree = SeqBuild(op', input')
              /\ result'.tree.root.hash = SeqBuild(op', input').root.hash ]_vars

C19_Witness ==
    /\ pc = "reduce"
    /\ op = "par_full"
    /\ Len(input) >= 5
    /\ <<0>> \in DOMAIN frames
    /\ <<1>> \in DOMAIN frames
    /\ frames[<<1>>].st = "done"
    /\ frames[<<0>>].st = "join"
    /\ frames[<<1>>].tree.root.kind = "Hash"

\* ------------------------------------------------------------------ C20 --
\* The nodes of a tree that span exactly one leaf: what the build made of a
\* one-element sub-sequence.
OneElementNodes(node) == { nd \in NodesOf(node) : LeafCount(nd) = 1 }

\* C20 as stated: in every bulk build a one-element sub-sequence, at any
\* depth, is a bare leaf node, never wrapped in a hash node.
C20_OneElementIsBareLeaf ==
    (Returned(BulkOps) /\ result.tag = "Ok")
        => \A nd \in OneElementNodes(Root) : nd.kind = "Leaf"

\* C20 as amended: in the full and balanced builds a one-element
\* sub-sequence, at any depth, is a bare leaf node; in the complete builds it
\* is a bare leaf only at the depth of the leaves (perfect_len 1), and where
\* it is reached k levels above (perfect_len 2^k) it is a chain of k
\* single-child nodes over the leaf; a single input gives a leaf root under
\* every policy.
C20_OneElementIsLeafOrCompleteChain ==
    (Returned(BulkOps) /\ result.tag = "Ok")
        => /\ op \notin CompleteOps =>
                 \A nd \in OneElementNodes(Root) : nd.kind = "Leaf"
           /\ op \in CompleteOps =>
                 LET h == Log2(LeastPow2(Len(input)))
                 IN  \A d \in 0 .. h : \A i \in DOMAIN Level(Root, d) :
                        Level(Root, d)[i] \in OneElementNodes(Root) =>
                           ChainLen(Level(Root, d)[i]) = h - d
           /\ Len(input) = 1 => Root.kind = "Leaf"

C20_Witness ==
    /\ Returned({"seq_complete"})
    /\ Len(input) = 5
    /\ result.tag = "Ok"
    /\ Root.children[2] \in OneElementNodes(Root)
    /\ ChainLen(Root.children[2]) = 2

\* C21: every tree the builder operations can produce has at least one node,
\* and every internal node in it has at least one child; a collection of no
\* trees is refused with EmptyTree instead of giving a node without children.
C21_EveryInternalNodeHasAChild ==
    /\ \A i \in DOMAIN held :
          /\ NodeCount(held[i].root) >= 1
          /\ \A nd \in InternalNodesOf(held[i].root) : Len(nd.children) >= 1
    /\ (call.name \in {"collect_children_from", "par_collect_children_from"}
            /\ call.args = <<>>)
          => call.result = EmptyTree
    /\ (call.name \in {"seq_complete"} \cup ParOps /\ call.args = << <<>> >>)
          => call.result = EmptyTree

C21_Witness ==
    /\ call.name = "collect_children_from"
    /\ call.args = <<>>
    /\ call.result = EmptyTree
    /\ \E i \in DOMAIN held : held[i].root.kind = "Hash"

\* The nodes of all the trees the caller holds.
NodesHeld == UNION { NodesOf(held[i].root) : i \in DOMAIN held }

\* Every node held carries the hash of what it was made from.
HashesIntact ==
    /\ \A nd \in NodesHeld :
          nd.kind = "Hash" => nd.hash = hash_children(nd.children)
    /\ call.name = "make_leaf" =>
          call.result.tree.root.hash = hash_input(call.args[2])
    /\ (call.name \in {"seq_complete"} \cup ParOps /\ call.result.tag = "Ok") =>
          LET leafs == LeafSeq(call.result.tree.root)
              it == call.args[1]
          IN  /\ Len(leafs) = Len(it)
              /\ \A i \in DOMAIN it : leafs[i].hash = hash_input(it[i])

\* C22: every leaf's hash is hash_input of the input it was made from, every
\* internal node's hash is hash_children of its children in order, and every
\* step keeps each node already held, with its hash and children, also when
\* its tree is absorbed as a child of a new node.
C22_HashIntegrity ==
    [][HashesIntact' /\ NodesHeld \subseteq NodesHeld']_vars

C22_Witness ==
    /\ call.name = "join"
    /\ \E nd \in NodesOf(call.args[1].root) :
          /\ nd.kind = "Hash"
          /\ nd # call.result.tree.root
          /\ nd \in NodesHeld

\* C23: in the parallel reductions a fork's parent is made, with one call of
\* hash_children, only in a step taken when both forked sub-reductions have
\* returned, and from exactly their two trees; a reduction whose nodes all go
\* to the left half (the chain case) forks nothing: it has the one
\* sub-reduction it calls itself, and wraps the tree that one returned.
C23_CombineAfterBothSubtasks ==
    [][/\ \A p \in DOMAIN frames :
             /\ (frames[p].st = "join" /\ p \in DOMAIN frames'
                    /\ frames'[p].st = "done") =>
                   /\ p \o <<0>> \in DOMAIN frames /\ frames[p \o <<0>>].st = "done"
                   /\ p \o <<1>> \in DOMAIN frames /\ frames[p \o <<1>>].st = "done"
                   /\ frames'[p].tree.root.kind = "Hash"
                   /\ frames'[p].tree.root.children =
                         << frames[p \o <<0>>].tree.root, frames[p \o <<1>>].tree.root >>
                   /\ hash_children_calls' = hash_children_calls + 1
             /\ (frames[p].st = "chain" /\ p \in DOMAIN frames'
                    /\ frames'[p].st = "done") =>
                   /\ p \o <<0>> \in DOMAIN frames /\ frames[p \o <<0>>].st = "done"
                   /\ frames'[p].tree.root.children = << frames[p \o <<0>>].tree.root >>
                   /\ hash_children_calls' = hash_children_calls + 1
       /\ \A p \in DOMAIN frames' :
             frames'[p].st = "chain" =>
                /\ p \o <<0>> \in DOMAIN frames'
                /\ p \o <<1>> \notin DOMAIN frames'
       /\ (pc = "reduce" /\ hash_children_calls' # hash_children_calls) =>
             \E p \in DOMAIN frames :
                /\ frames[p].st \in {"join", "chain"}
                /\ frames'[p].st = "done"]_vars

C23_Witness ==
    /\ pc = "reduce"
    /\ op = "par_complete"
    /\ \E p \in DOMAIN frames :
          /\ frames[p].st = "join"
          /\ Done(p \o <<0>>)
          /\ ~Done(p \o <<1>>)
          /\ p \o <<1, 0>> \in DOMAIN frames
          /\ frames[p \o <<1>>].st = "chain"

\* C24: for every top-level length n >= 1 every call of a reduction, of the
\* complete (sequential and parallel), full and balanced builds, receives a
\* length >= 1; where a call of length len >= 2 splits, the left and right
\* lengths are both >= 1 and add up to len, so neither the len != 0
\* assertions nor split_off(left_len) fail.
C24_SplitsNeverEmpty ==
    call.name = "reduce" =>
       /\ call.len >= 1
       /\ call.len <= call.n
       /\ call.case \notin {"assert", "split_off"}
       /\ (call.len >= 2 /\ call.policy \notin CompletePolicies) => call.case = "fork"
       /\ call.case = "fork" =>
             /\ call.len >= 2
             /\ call.left_len >= 1
             /\ call.len - call.left_len >= 1
             /\ call.left_len + (call.len - call.left_len) = call.len
             /\ call.left_len <= call.len

C24_Witness ==
    /\ call.name = "reduce"
    /\ call.policy = "par_full"
    /\ call.n = UsizeMax
    /\ call.len = 3
    /\ call.case = "fork"
    /\ call.left_len = 2

\* ------------------------------------------------------------------ C25 --
\* A bulk build was handed an iterator that reported a non-zero length other
\* than the number of items it yields.
Misreported ==
    /\ call.name \in {"seq_complete", "par_complete", "par_full"}
    /\ call.args[1].len # 0
    /\ Len(call.args[1].items) # call.args[1].len

C26_BuildsTerminateWithTree ==
    /\ [][\A p \in DOMAIN frames' :
             (op = "par_complete" /\ Len(p) > 0 /\ p \notin DOMAIN frames) =>
                LET parent == SubSeq(p, 1, Len(p) - 1) IN
                /\ frames[parent].perfect_len > 1
                /\ frames'[p].perfect_len = frames[parent].perfect_len \div 2
                /\ frames'[p].perfect_len >= 1
                /\ frames'[p].perfect_len < frames[parent].perfect_len]_vars
    /\ [](pc = "done" /\ op \in BulkOps /\ Len(input) >= 1
             => result.tag = "Ok" /\ frames = NoFrames)
    /\ (pc \in {"map", "reduce"} /\ Len(input) >= 1)
          ~> (pc = "done" /\ result.tag = "Ok")

C26_Witness ==
    /\ pc = "done"
    /\ op = "par_complete"
    /\ Len(input) = 5
    /\ result.tag = "Ok"
    /\ frames = NoFrames
    /\ hash_children_calls = 6

\* ------------------------------------------------------------------ C27 --
\* A call of the full or the balanced reduction that splits its len items.
Splits(policy) ==
    /\ call.name = "reduce"
    /\ call.policy = policy
    /\ call.case = "fork"

\* p is the least power of two >= c, for c >= 1.
IsNextPow2(p, c) == IsPow2(p) /\ c <= p /\ p < 2 * c

\* C27: for every len in 2 .. 2^w - 1 the left count of the balanced
\* reduction is ceil(len / 2), that of the full reduction is the least power
\* of two >= ceil(len / 2), and neither computation overflows or wraps.
C27_LeftCountsAreCeil ==
    /\ Splits("par_balanced") =>
          /\ call.len \in 2 .. UsizeMax
          /\ call.left_len = CeilHalf(call.len)
    /\ Splits("par_full") =>
          /\ call.len \in 2 .. UsizeMax
          /\ IsNextPow2(call.left_len, CeilHalf(call.len))
          /\ call.left_len <= UsizeMax

\* ------------------------------------------------------------------ C28 --
\* The number of items among the first i - 1 yielded that came from end.
TakenBefore(yielded, i, end) ==
    Cardinality({ j \in 1 .. i - 1 : yielded[j].end = end })

\* C28: on the NodeHashes iterator of a node with c children, under any
\* interleaving of next and next_back, next yields the child hashes in index
\* order from the front and next_back in reverse index order starting with the
\* hash of the last child, each hash at most once, and exactly c hashes are
\* yielded before the two return None.
C28_NodeHashesFromBothEnds ==
    (/\ iters # <<>>
     /\ \A i \in DOMAIN iters[1].yielded :
           iters[1].yielded[i].end \in {"next", "next_back"})
    => LET nodes == held[1].root.children
           c == Len(nodes)
           yielded == iters[1].yielded
       IN  /\ \A i \in DOMAIN yielded :
                 LET index == IF yielded[i].end = "next"
                              THEN TakenBefore(yielded, i, "next")
                              ELSE c - 1 - TakenBefore(yielded, i, "next_back")
                 IN  /\ yielded[i].index = index
                     /\ yielded[i].hash = nodes[index + 1].hash
           /\ \A i, j \in DOMAIN yielded : i # j => yielded[i].index # yielded[j].index
           /\ (call.name \in {"next", "next_back"} /\ call.result = None)
                 => Len(yielded) = c

\* ------------------------------------------------------------------ C29 --
\* C29: after any sequence of next, nth and next_back calls on a NodeHashes
\* iterator, len() equals the lower and the upper bound of size_hint(), and
\* count(), and the number of hashes next() goes on to yield.
C29_NodeHashesLenIsRemaining ==
    call.name = "len" =>
       /\ call.result = call.size_hint[1]
       /\ call.result = call.size_hint[2]
       /\ call.result = call.count
       /\ call.result = call.yet_to_yield

\* ------------------------------------------------------------------ C30 --
\* C30: equality across MerkleTree, Node, LeafNode and HashNode is a
\* consistent partial equivalence: a == b exactly when b == a; a == b and
\* b == c give a == c where a and c can be compared; and two values that are
\* equal feed the same value to a standard hasher.
C30_EqualityIsPartialEquivalence ==
    call.name = "eq3" =>
       /\ call.ab = call.ba
       /\ call.bc = call.cb
       /\ (call.ab /\ call.bc /\ call.ac # <<>>) => call.ac[1]
       /\ call.ab => call.fed[1] = call.fed[2]
       /\ call.bc => call.fed[2] = call.fed[3]
       /\ (call.ac # <<>> /\ call.ac[1]) => call.fed[1] = call.fed[3]

C30_Witness ==
    /\ call.name = "eq3"
    /\ call.args[1].type = "LeafNode"
    /\ call.args[2].type = "MerkleTree"
    /\ call.args[3].type = "Node"
    /\ call.ab
    /\ call.bc
    /\ call.ac = <<TRUE>>
    /\ call.args[1].node # call.args[2].node

====
